---- MODULE Spec2Model ----
(***************************************************************************)
(* Model of data.py: the OSM element shaping and tag normalisation         *)
(* pipeline (handle_tags, update_name, update_city_name, shape_element,    *)
(* process_map) and the cross-reference reconciliation that __main__ runs  *)
(* before it (audit, addmappings, citieslist, buildcitiescrossreference).  *)
(*                                                                         *)
(* Python strings are sequences of one-character strings, so that          *)
(* str.upper, str.split, str.replace and the regular expressions are       *)
(* computed character by character.                                        *)
(***************************************************************************)
EXTENDS Integers, Sequences, FiniteSets, TLC

VARIABLES
    pc,                      \* position of __main__ / of the harness
    osm,                     \* contents of OSM_PATH: a sequence of elements
    usps_street_csv,         \* contents of the file USPS_STREET
    cities_list_csv,         \* contents of the file CITIES_LIST
    Cross_Reference,         \* global street cross-reference table
    Cross_Reference_Cities,  \* global city cross-reference table
    AddtoCR,                 \* answer to the prompt of __main__
    write,                   \* answer to the write prompt of buildcitiescrossreference
    validate,                \* process_map's argument validate
    pos,                     \* index in osm of the next element get_element yields
    el,                      \* process_map's el: result of the last shape_element call
    raised,                  \* the exception that ended the run, or None
    nodes_csv,               \* rows written to NODES_PATH
    nodes_tags_csv,          \* rows written to NODE_TAGS_PATH
    ways_csv,                \* rows written to WAYS_PATH
    ways_nodes_csv,          \* rows written to WAY_NODES_PATH
    ways_tags_csv,           \* rows written to WAY_TAGS_PATH
    key_name,                \* harness: argument of handle_tags
    value_name,              \* harness: argument of handle_tags
    key_value_type           \* harness: what handle_tags returned

vars == <<pc, osm, usps_street_csv, cities_list_csv, Cross_Reference,
          Cross_Reference_Cities, AddtoCR, write, validate, pos, el, raised,
          nodes_csv, nodes_tags_csv, ways_csv, ways_nodes_csv, ways_tags_csv,
          key_name, value_name, key_value_type>>

-----------------------------------------------------------------------------
(* Bounds of the model *)

\* longest raw tag value the harness enumerates
MaxLen == 3

\* largest number of elements in the OSM file
MaxElems == 2

-----------------------------------------------------------------------------
(* Python strings *)

None == <<"None">>

Lower == <<"a","b","c","d","e","f","g","h","i","j","k","l","m",
           "n","o","p","q","r","s","t","u","v","w","x","y","z">>

Upper == <<"A","B","C","D","E","F","G","H","I","J","K","L","M",
           "N","O","P","Q","R","S","T","U","V","W","X","Y","Z">>

Digits == {"0","1","2","3","4","5","6","7","8","9"}

\* a character outside ASCII and its upper-case form, named by code point
U_00e9 == "u00e9"
U_00c9 == "u00c9"
NonAscii == {U_00e9, U_00c9}

upper_char(c) ==
    IF \E i \in DOMAIN Lower : Lower[i] = c
    THEN Upper[CHOOSE i \in DOMAIN Lower : Lower[i] = c]
    ELSE IF c = U_00e9 THEN U_00c9
    ELSE c

\* s.upper(), of a str or of a unicode object
upper(s) == [i \in 1..Len(s) |-> upper_char(s[i])]

\* Python 2: the XML parser hands an attribute value over as a str when it is
\* all ASCII and as a unicode object otherwise, and upper(), replace() and
\* m.group() of a unicode object are unicode objects. The descriptor call
\* str.upper(x) raises TypeError when x is a unicode object; x.upper() does not.
is_unicode(s) == \E i \in DOMAIN s : s[i] \in NonAscii

\* s[i:] of Python, with i counted from 1
From(s, i) == SubSeq(s, i, Len(s))

\* str.replace(old, new): every non-overlapping occurrence, left to right
RECURSIVE replace(_, _, _)
replace(s, old, new) ==
    IF Len(old) = 0
    THEN IF Len(s) = 0 THEN new
         ELSE new \o <<s[1]>> \o replace(Tail(s), old, new)
    ELSE IF Len(s) < Len(old) THEN s
    ELSE IF SubSeq(s, 1, Len(old)) = old
         THEN new \o replace(From(s, Len(old) + 1), old, new)
         ELSE <<s[1]>> \o replace(Tail(s), old, new)

\* the literals the code compares with
S_street == <<"s","t","r","e","e","t">>
S_city == <<"c","i","t","y">>
S_regular == <<"r","e","g","u","l","a","r">>
S_addr_street == <<"a","d","d","r",":">> \o S_street
S_addr_city == <<"a","d","d","r",":">> \o S_city
S_Y == <<"Y">>

-----------------------------------------------------------------------------
(* Regular expressions *)

\* PROBLEMCHARS = [=\+/&<>;\'"\?%#$@\,\. \t\r\n]
PROBLEMCHARS ==
    {"=", "+", "/", "&", "<", ">", ";", "'", "\"", "?", "%", "#", "$", "@",
     ",", ".", " ", "\t", "\r", "\n"}

\* PROBLEMCHARS.search(key_name): a match anywhere in the string
PROBLEMCHARS_search(s) == \E i \in DOMAIN s : s[i] \in PROBLEMCHARS

\* \w and \s of the re module on ASCII text
IsWord(c) ==
    \/ c \in Digits
    \/ c = "_"
    \/ \E i \in DOMAIN Lower : c = Lower[i] \/ c = Upper[i]

IsSpace(c) == c \in {" ", "\t", "\n", "\r", "\f"}

\* \b before s[p]
WordBoundary(s, p) ==
    LET before == p > 1 /\ IsWord(s[p - 1])
        after == p <= Len(s) /\ IsWord(s[p])
    IN  before # after

\* index of the last character a match of \S+\.?$ covers: $ matches at the
\* end of the string and before a newline that ends it
MatchEnd(s) == IF Len(s) > 0 /\ s[Len(s)] = "\n" THEN Len(s) - 1 ELSE Len(s)

\* whether \b\S+\.?$ matches starting at s[p]
MatchesAt(s, p) ==
    /\ p <= MatchEnd(s)
    /\ WordBoundary(s, p)
    /\ \A i \in p..MatchEnd(s) : ~IsSpace(s[i])

\* street_type_re.search(name): the start of the leftmost match, 0 for None
street_type_re_search(s) ==
    IF \E p \in DOMAIN s : MatchesAt(s, p)
    THEN CHOOSE p \in DOMAIN s :
            MatchesAt(s, p) /\ \A q \in 1..(p - 1) : ~MatchesAt(s, q)
    ELSE 0

\* m.group()
group(s, m) == SubSeq(s, m, MatchEnd(s))

-----------------------------------------------------------------------------
(* pandas tables: a DataFrame is the sequence of its rows, a row a record *)

\* df[col].values
Column(df, col) == {df[i][col] : i \in DOMAIN df}

\* df.loc[df[col] == val, out]: the selected cells, in row order
RECURSIVE loc(_, _, _, _)
loc(df, col, val, out) ==
    IF df = <<>> THEN <<>>
    ELSE (IF Head(df)[col] = val THEN <<Head(df)[out]>> ELSE <<>>)
         \o loc(Tail(df), col, val, out)

\* readindata(datafile): the table the file holds
readindata(datafile) == datafile

\* what the file holds after the call, a mutation: savedata does not write
savedata_skipped(df, datafile) == datafile

\* savedata(df,datafile): the file, whatever it held, holds df afterwards
savedata(df, datafile) == df

\* str.upper(x) in CR.values: any cell of any column
InValues(df, x) ==
    \E i \in DOMAIN df : \E col \in DOMAIN df[i] : df[i][col] = x

-----------------------------------------------------------------------------
(* Value normalisation *)

\* returns [raised, value]
update_name(name, CR) ==
    LET m == street_type_re_search(name)
        return(v) == [raised |-> "None", value |-> v]
        TypeError == [raised |-> "TypeError", value |-> None]
    IN
    IF m # 0
    THEN LET street_type == group(name, m)
             street_type_upper == upper(street_type)
         IN  \* street_type_upper=str.upper(street_type)
             IF is_unicode(name) THEN TypeError
             ELSE IF street_type_upper \in Column(CR, "CommonName")
             THEN LET new_value_cn ==
                          loc(CR, "CommonName", street_type_upper, "FullName")[1]
                  IN  return(upper(replace(name, street_type_upper, new_value_cn)))
             ELSE IF upper(street_type) \in Column(CR, "USPSName")
             THEN LET new_value_un ==
                          loc(CR, "USPSName", upper(street_type), "FullName")[1]
                  IN  return(upper(replace(name, street_type_upper, new_value_un)))
             ELSE return(upper(name))
    \* new_name=str.upper(name)
    ELSE IF is_unicode(name) THEN TypeError
    ELSE return(upper(name))

\* returns [raised, value]: .iloc[0] of an empty selection raises IndexError
update_city_name(name, CR) ==
    \* str.upper(name)
    IF is_unicode(name) THEN [raised |-> "TypeError", value |-> None]
    ELSE IF upper(name) \in Column(CR, "OriginalName")
    THEN LET sel == loc(CR, "OriginalName", name, "NewName") IN
         IF sel = <<>>
         THEN [raised |-> "IndexError", value |-> None]
         ELSE [raised |-> "None", value |-> replace(name, name, sel[1])]
    ELSE [raised |-> "None", value |-> name]

\* index of the first ":" of s, 0 when there is none
FirstColon(s) ==
    IF \E i \in DOMAIN s : s[i] = ":"
    THEN CHOOSE i \in DOMAIN s : s[i] = ":" /\ \A j \in 1..(i - 1) : s[j] # ":"
    ELSE 0

\* key_name.split(':', 1)
split1(s) ==
    LET c == FirstColon(s) IN
    IF c = 0 THEN <<s>> ELSE <<SubSeq(s, 1, c - 1), From(s, c + 1)>>

\* a mutation of handle_tags: the street table is applied whatever the type
handle_tags_substituting(key, value, CR, CRC) ==
    LET value_upper == upper(value)
        r == update_name(value_upper, CR)
        colon == FirstColon(key) # 0
    IN
    IF PROBLEMCHARS_search(key)
    THEN [raised |-> "UnboundLocalError", key |-> None, value |-> None,
          type |-> None]
    ELSE IF r.raised # "None"
    THEN [raised |-> r.raised, key |-> None, value |-> None, type |-> None]
    ELSE [raised |-> "None",
          key |-> IF colon THEN split1(key)[1] ELSE key,
          value |-> r.value,
          type |-> IF colon THEN split1(key)[2] ELSE S_regular]

\* returns [raised, key, value, type]
handle_tags(key, value, CR, CRC) ==
    LET value_upper == upper(value) IN
    IF ~PROBLEMCHARS_search(key)
    THEN IF FirstColon(key) # 0
         THEN LET key_split == split1(key)
                  key_1 == key_split[1]
                  type_name == key_split[2]
                  normalized(r) ==
                      IF r.raised # "None"
                      THEN [raised |-> r.raised, key |-> None, value |-> None,
                            type |-> None]
                      ELSE [raised |-> "None", key |-> key_1,
                            value |-> r.value, type |-> type_name]
              IN  IF type_name = S_street
                  THEN normalized(update_name(value_upper, CR))
                  ELSE IF type_name = S_city
                  THEN normalized(update_city_name(value_upper, CRC))
                  ELSE [raised |-> "None", key |-> key_1,
                        value |-> value_upper, type |-> type_name]
         ELSE [raised |-> "None", key |-> key,
               value |-> value_upper, type |-> S_regular]
    \* type_name was never assigned: the return statement reads an unbound local
    ELSE [raised |-> "UnboundLocalError", key |-> None, value |-> None,
          type |-> None]

-----------------------------------------------------------------------------
(* Element shaping *)

NODE_FIELDS == <<"id", "lat", "lon", "user", "uid", "version", "changeset",
                 "timestamp">>

WAY_FIELDS == <<"id", "user", "uid", "version", "changeset", "timestamp">>

Range(f) == {f[i] : i \in DOMAIN f}

\* element.iter(name): the element itself and its descendants in document
\* order; the children of an OSM node or way have no children of their own
iter(element, name) ==
    (IF element.tag = name THEN <<element>> ELSE <<>>)
    \o SelectSeq(element.children, LAMBDA c : c.tag = name)

\* the loop "for field in FIELDS: attribs[field] = element.attrib[field].upper()"
\* raises KeyError at the first field the element lacks
lacks_field(element, fields) ==
    \E i \in DOMAIN fields : fields[i] \notin DOMAIN element.attrib

attribs(element, fields) ==
    [f \in Range(fields) |-> upper(element.attrib[f])]

\* a mutation of tag_values: the id is the one nodeid and wayid start with
tag_values_unset(id, kvt) ==
    [id |-> <<>>, key |-> kvt.key, value |-> kvt.value, type |-> kvt.type]

\* tag_values: id, key, value, type of one secondary tag, copied into tags
tag_values(id, kvt) ==
    [id |-> id, key |-> kvt.key, value |-> kvt.value, type |-> kvt.type]

\* the tag loop of either branch: handle_tags on each child, in order
tag_results(element, CR, CRC) ==
    LET children == iter(element, "tag") IN
    [i \in 1..Len(children) |->
        handle_tags(children[i].attrib["k"], children[i].attrib["v"], CR, CRC)]

\* way_node_values: one record per nd the second loop iterates
way_node_values(id, nds) ==
    [i \in 1..Len(nds) |->
        [id |-> id, node_id |-> upper(nds[i].attrib["ref"]), position |-> i - 1]]

\* what "element" is bound to when the nd loop starts: the tag loop rebinds
\* it to each tag child in turn
element_after_tag_loop(element) ==
    LET children == iter(element, "tag") IN
    IF children = <<>> THEN element ELSE children[Len(children)]

NoRecords == <<>>

\* returns [raised, tag, primary, tags, way_nodes]; tag is "None" when the
\* function returns None
shape_element(element, CR, CRC) ==
    LET fields == IF element.tag = "node" THEN NODE_FIELDS ELSE WAY_FIELDS
        kvts == tag_results(element, CR, CRC)
        failed == {i \in DOMAIN kvts : kvts[i].raised # "None"}
        error(e) == [raised |-> e, tag |-> element.tag, primary |-> <<>>,
                     tags |-> NoRecords, way_nodes |-> NoRecords]
    IN
    IF element.tag \notin {"node", "way"}
    THEN [raised |-> "None", tag |-> "None", primary |-> <<>>,
          tags |-> NoRecords, way_nodes |-> NoRecords]
    ELSE IF lacks_field(element, fields) THEN error("KeyError")
    ELSE IF failed # {}
    THEN error(kvts[CHOOSE i \in failed : \A j \in failed : i <= j].raised)
    ELSE LET id == element.attrib["id"]
             tags == [i \in DOMAIN kvts |-> tag_values(id, kvts[i])]
         IN  IF element.tag = "node"
             THEN [raised |-> "None", tag |-> "node",
                   primary |-> attribs(element, NODE_FIELDS),
                   tags |-> tags, way_nodes |-> NoRecords]
             ELSE [raised |-> "None", tag |-> "way",
                   primary |-> attribs(element, WAY_FIELDS),
                   tags |-> tags,
                   way_nodes |->
                       way_node_values(id,
                           iter(element_after_tag_loop(element), "nd"))]

\* get_element(osm_file, tags=('node', 'way')): the elements it yields
get_element(file) == SelectSeq(file, LAMBDA e : e.tag \in {"node", "way"})

-----------------------------------------------------------------------------
(* Cross-reference reconciliation *)

\* what an iterparse pass over "start" events sees of the file: every element,
\* each with the children already parsed when its start event was delivered,
\* which is some prefix of its children
MostChildren(file) ==
    IF file = <<>> THEN 0
    ELSE CHOOSE n \in {Len(file[i].children) : i \in DOMAIN file} :
            \A i \in DOMAIN file : Len(file[i].children) <= n

StartViews(file) ==
    {[i \in DOMAIN file |->
        [file[i] EXCEPT !.children = SubSeq(file[i].children, 1, cut[i])]] :
     cut \in {c \in [DOMAIN file -> 0..MostChildren(file)] :
                 \A i \in DOMAIN file : c[i] <= Len(file[i].children)}}

\* the tag children a pass visits: elem.iter("tag") of every node and way
VisitedTags(view) ==
    UNION {Range(iter(view[i], "tag")) :
           i \in {j \in DOMAIN view : view[j].tag \in {"node", "way"}}}

is_street_name(elem) == elem.attrib["k"] = S_addr_street

\* audit_street_type calls str.upper(street_type) on the match of a street
\* value: audit raises TypeError when such a value is a unicode object
audit_raises(view) ==
    \E u \in VisitedTags(view) :
        /\ is_street_name(u)
        /\ street_type_re_search(u.attrib["v"]) # 0
        /\ is_unicode(u.attrib["v"])

\* the keys of the street_types dictionary audit returns
audit(view, CR) ==
    {group(t.attrib["v"], street_type_re_search(t.attrib["v"])) :
     t \in {u \in VisitedTags(view) :
              /\ is_street_name(u)
              /\ street_type_re_search(u.attrib["v"]) # 0
              /\ ~InValues(CR, upper(group(u.attrib["v"],
                                           street_type_re_search(u.attrib["v"]))))}}

\* attriblist["addr:city"] of citieslist
citieslist(view) ==
    {t.attrib["v"] : t \in {u \in VisitedTags(view) : u.attrib["k"] = S_addr_city}}

\* the orders in which a loop may iterate a dictionary or a set
Orders(S) ==
    {o \in [1..Cardinality(S) -> S] : \A i, j \in DOMAIN o : o[i] = o[j] => i = j}

\* the column labels of the city table; "x not in DataFrame" tests them
CityColumns ==
    {<<"O","r","i","g","i","n","a","l","N","a","m","e">>,
     <<"N","e","w","N","a","m","e">>}

\* addedmappings: map[st] is the answer to the first prompt, newvalue[st]
\* the answer to the second
RECURSIVE addedmappings(_, _, _)
addedmappings(order, map, newvalue) ==
    IF order = <<>> THEN <<>>
    ELSE LET st == Head(order)
             st_upper == upper(st)
         IN  (IF map[st] = S_Y
              THEN <<[FullName |-> newvalue[st], CommonName |-> st_upper,
                      USPSName |-> st_upper]>>
              ELSE <<>>)
             \o addedmappings(Tail(order), map, newvalue)

\* the loop of buildcitiescrossreference calls str.upper(city) on every city
newcityrows_raises(cities) == \E city \in cities : is_unicode(city)

\* the rows buildcitiescrossreference appends
RECURSIVE newcityrows(_, _, _, _)
newcityrows(order, table, response, newcityname) ==
    IF order = <<>> THEN <<>>
    ELSE LET city == Head(order)
             city_upper == upper(city)
         IN  (IF upper(city) \notin CityColumns
              THEN IF upper(response[city]) = S_Y
                   THEN <<[OriginalName |-> city_upper, NewName |-> city_upper]>>
                   ELSE <<[OriginalName |-> city_upper,
                           NewName |-> upper(newcityname[city])]>>
              ELSE <<>>)
             \o newcityrows(Tail(order), table, response, newcityname)

-----------------------------------------------------------------------------
(* Inputs *)

\* the answers a prompt is given
Answers == {<<"y">>, <<"n">>}

\* the replacement names the operator types
NewStreetNames == {<<"R","o","a","d">>}
NewCityNames == {<<"l","v">>}

Tag(k, v) == [tag |-> "tag", attrib |-> [k |-> k, v |-> v], children |-> <<>>]
Nd(ref) == [tag |-> "nd", attrib |-> [ref |-> ref], children |-> <<>>]

T_street_hit == Tag(S_addr_street, <<"s","t"," ","a"," ","s","t">>)
T_street_new == Tag(S_addr_street, <<"b"," ","r","d">>)
T_city_hit == Tag(S_addr_city, <<"l","v">>)
T_city_new == Tag(S_addr_city, <<"x">>)
T_street_unicode == Tag(S_addr_street, <<"a", " ", U_00e9>>)
T_city_unicode == Tag(S_addr_city, <<U_00e9>>)
T_regular == Tag(<<"n","a","m","e">>, <<"b","o","b">>)
T_problem == Tag(<<"a",".","b">>, <<"b">>)
Nd_10 == Nd(<<"1","0">>)
Nd_20 == Nd(<<"2","0">>)

FullAttrib(id) ==
    [a \in {"id", "lat", "lon", "user", "uid", "version", "changeset",
            "timestamp", "visible"} |->
        CASE a = "id" -> id
          [] a = "lat" -> <<"3","6",".","1">>
          [] a = "lon" -> <<"-","1","1","5">>
          [] a = "user" -> <<"u","b","o","o","t">>
          [] a = "uid" -> <<"7">>
          [] a = "version" -> <<"2">>
          [] a = "changeset" -> <<"5">>
          [] a = "timestamp" -> <<"2","0","1","0","T","1","6","Z">>
          [] OTHER -> <<"t","r","u","e">>]

Without(attrib, names) == [a \in (DOMAIN attrib) \ names |-> attrib[a]]

Node(attrib, children) == [tag |-> "node", attrib |-> attrib, children |-> children]
Way(attrib, children) == [tag |-> "way", attrib |-> attrib, children |-> children]

NodeChildren ==
    {<<>>, <<T_regular>>, <<T_street_hit, T_city_hit>>, <<T_problem, T_regular>>,
     <<T_city_new, T_street_new>>, <<T_city_unicode, T_street_unicode>>}

WayChildren ==
    {<<Nd_10, Nd_20, Nd_10>>, <<T_regular, Nd_10>>, <<Nd_10, T_street_new, Nd_20>>,
     <<T_city_hit, T_regular, T_city_new>>}

\* well-formed elements, each with an attribute its primary record does not hold
WellFormed ==
    {Node(FullAttrib(<<"1">>), c) : c \in NodeChildren}
    \cup {Way(Without(FullAttrib(<<"3">>), {"lat", "lon"}), c) : c \in WayChildren}

\* elements that lack a required attribute
Malformed ==
    {Node(Without(FullAttrib(<<"2">>), {"uid", "visible"}), <<T_regular>>),
     Way(Without(FullAttrib(<<"4">>), {"lat", "lon", "visible", "changeset"}),
         <<T_regular, Nd_10>>)}

\* an element get_element does not yield
Relation == [tag |-> "relation", attrib |-> FullAttrib(<<"9">>), children |-> <<>>]

Elements == WellFormed \cup Malformed \cup {Relation}

OsmFiles == UNION {[1..n -> Elements] : n \in 0..MaxElems}

StreetFile ==
    <<[FullName |-> <<"S","t","r","e","e","t">>, CommonName |-> <<"S","T","R">>,
       USPSName |-> <<"S","T">>]>>

CityFile ==
    <<[OriginalName |-> <<"L","V">>, NewName |-> <<"L","A","S">>]>>

\* pd.DataFrame(): the tables before __main__ loads them
EmptyDataFrame == <<>>

NoEl == [raised |-> "None", tag |-> "None", primary |-> <<>>,
         tags |-> NoRecords, way_nodes |-> NoRecords]

-----------------------------------------------------------------------------
(* __main__ *)

Init ==
    /\ pc = "start"
    /\ osm \in OsmFiles
    /\ usps_street_csv = StreetFile
    /\ cities_list_csv = CityFile
    /\ Cross_Reference = EmptyDataFrame
    /\ Cross_Reference_Cities = EmptyDataFrame
    /\ AddtoCR = None
    /\ write = None
    /\ validate = FALSE
    /\ pos = 1
    /\ el = NoEl
    /\ raised = "None"
    /\ nodes_csv = <<>>
    /\ nodes_tags_csv = <<>>
    /\ ways_csv = <<>>
    /\ ways_nodes_csv = <<>>
    /\ ways_tags_csv = <<>>
    /\ key_name = None
    /\ value_name = None
    /\ key_value_type = None

streams == <<nodes_csv, nodes_tags_csv, ways_csv, ways_nodes_csv, ways_tags_csv>>
harness == <<key_name, value_name, key_value_type>>
files == <<usps_street_csv, cities_list_csv>>

\* Cross_Reference_Cities=createCityCR(); Cross_Reference=createStCR()
createCR ==
    /\ pc = "start"
    /\ Cross_Reference_Cities' = readindata(cities_list_csv)
    /\ Cross_Reference' = readindata(usps_street_csv)
    /\ pc' = "prompt"
    /\ UNCHANGED <<osm, validate, files, AddtoCR, write, pos, el, raised, streams, harness>>

\* AddtoCR=raw_input(AddtoCRSPrompt)
prompt ==
    /\ pc = "prompt"
    /\ \E answer \in Answers :
        /\ AddtoCR' = answer
        /\ pc' = IF upper(answer) = S_Y THEN "addmappings" ELSE "process_map"
    /\ UNCHANGED <<osm, validate, files, Cross_Reference, Cross_Reference_Cities, write,
                   pos, el, raised, streams, harness>>

\* Cross_Reference=addmappings(audit(OSM_PATH,Cross_Reference),Cross_Reference)
addmappings ==
    /\ pc = "addmappings"
    /\ \E view \in StartViews(osm) :
       IF audit_raises(view)
       THEN /\ raised' = "TypeError"
            /\ pc' = "raised"
            /\ UNCHANGED <<usps_street_csv, Cross_Reference>>
       ELSE LET st_list == audit(view, Cross_Reference) IN
            \E order \in Orders(st_list) :
            \E map \in [st_list -> {<<"Y">>, <<"N">>}] :
            \E newvalue \in [st_list -> NewStreetNames] :
            LET CR == Cross_Reference \o addedmappings(order, map, newvalue) IN
             \* savedata(CR,USPS_STREET); return CR
             /\ usps_street_csv' = savedata(CR, usps_street_csv)
             /\ Cross_Reference' = CR
             /\ pc' = "buildcitiescrossreference"
             /\ UNCHANGED raised
    /\ UNCHANGED <<osm, validate, cities_list_csv, Cross_Reference_Cities, AddtoCR, write,
                   pos, el, streams, harness>>

\* Cross_Reference_Cities= buildcitiescrossreference(citieslist(OSM_PATH))
buildcitiescrossreference ==
    /\ pc = "buildcitiescrossreference"
    /\ \E view \in StartViews(osm) :
       LET cities == citieslist(view)
           table == readindata(cities_list_csv)
       IN
       IF newcityrows_raises(cities)
       THEN /\ raised' = "TypeError"
            /\ pc' = "raised"
            /\ UNCHANGED <<write, cities_list_csv, Cross_Reference_Cities>>
       ELSE \E order \in Orders(cities) :
            \E response \in [cities -> {<<"y">>, <<"n">>}] :
            \E newcityname \in [cities -> NewCityNames] :
            \E answer \in Answers :
            LET citiescrossreference ==
                    table \o newcityrows(order, table, response, newcityname)
            IN
             /\ write' = answer
             \* if str.upper(write)=="Y": savedata(citiescrossreference,CITIES_LIST)
             /\ cities_list_csv' =
                    IF upper(answer) = S_Y
                    THEN savedata(citiescrossreference, cities_list_csv)
                    ELSE cities_list_csv
             /\ Cross_Reference_Cities' = citiescrossreference
             /\ pc' = "process_map"
             /\ UNCHANGED raised
    /\ UNCHANGED <<osm, validate, usps_street_csv, Cross_Reference, AddtoCR, pos, el,
                   streams, harness>>

\* the rows one shaped element adds to the five files
writerows(r) ==
    /\ nodes_csv' = IF r.tag = "node" THEN Append(nodes_csv, r.primary)
                    ELSE nodes_csv
    /\ nodes_tags_csv' = IF r.tag = "node" THEN nodes_tags_csv \o r.tags
                         ELSE nodes_tags_csv
    /\ ways_csv' = IF r.tag = "way" THEN Append(ways_csv, r.primary)
                   ELSE ways_csv
    /\ ways_nodes_csv' = IF r.tag = "way" THEN ways_nodes_csv \o r.way_nodes
                         ELSE ways_nodes_csv
    /\ ways_tags_csv' = IF r.tag = "way" THEN ways_tags_csv \o r.tags
                        ELSE ways_tags_csv

\* a mutation of the loop body: an element whose shaping raises is skipped
\* and the loop goes on
loop_body_skipping ==
    LET element == get_element(osm)[pos]
        r == shape_element(element, Cross_Reference, Cross_Reference_Cities)
    IN  IF r.raised # "None"
        THEN /\ pos' = pos + 1
             /\ UNCHANGED <<pc, raised, el, streams>>
        ELSE /\ el' = r
             /\ pos' = pos + 1
             /\ writerows(r)
             /\ UNCHANGED <<pc, raised>>

\* the body of the loop of process_map: el = shape_element(element), then the
\* rows of el are written; an exception of shape_element ends the run.
\* validate is False in __main__, so validate_element is not called
loop_body ==
    LET element == get_element(osm)[pos]
        r == shape_element(element, Cross_Reference, Cross_Reference_Cities)
    IN  IF r.raised # "None"
        THEN /\ raised' = r.raised
             /\ pc' = "raised"
             /\ UNCHANGED <<pos, el, streams>>
        ELSE /\ el' = r
             /\ pos' = pos + 1
             /\ writerows(r)
             /\ UNCHANGED <<pc, raised>>

\* a mutation of process_map: a city it shapes is added to the city table
process_map_remembering ==
    /\ pc = "process_map"
    /\ pos <= Len(get_element(osm))
    /\ loop_body
    /\ LET cities == citieslist(<<get_element(osm)[pos]>>) IN
       Cross_Reference_Cities' =
           IF cities = {} THEN Cross_Reference_Cities
           ELSE LET city == CHOOSE c \in cities : TRUE IN
                Append(Cross_Reference_Cities,
                       [OriginalName |-> upper(city), NewName |-> upper(city)])
    /\ UNCHANGED <<osm, validate, files, Cross_Reference, AddtoCR, write, harness>>

\* one iteration of the loop of process_map
process_map ==
    /\ pc = "process_map"
    /\ pos <= Len(get_element(osm))
    /\ loop_body
    /\ UNCHANGED <<osm, validate, files, Cross_Reference, Cross_Reference_Cities, AddtoCR,
                   write, harness>>

\* the loop of process_map ends and the files are closed
process_map_return ==
    /\ pc = "process_map"
    /\ pos > Len(get_element(osm))
    /\ pc' = "done"
    /\ UNCHANGED <<osm, validate, files, Cross_Reference, Cross_Reference_Cities, AddtoCR,
                   write, pos, el, raised, streams, harness>>

Next ==
    \/ createCR
    \/ prompt
    \/ addmappings
    \/ buildcitiescrossreference
    \/ process_map
    \/ process_map_return

Spec == Init /\ [][Next]_vars

-----------------------------------------------------------------------------
(* handle_tags on its own: every raw value up to MaxLen characters, against
   tables that hold duplicate, mixed-case and one-column-only entries *)

ValueAlphabet == {"a", "A", "b", " ", ".", U_00e9}

RawValues == UNION {[1..n -> ValueAlphabet] : n \in 0..MaxLen}

RawKeys ==
    {S_addr_street, S_addr_city, S_street, <<"n","a","m","e">>,
     S_addr_street \o <<":","n","a","m","e">>,
     S_city \o <<":","a","d","d","r">>,
     <<"a"," ","b">>, <<"a",".",":">> \o S_city, <<":">>}

StreetTables ==
    {<<[FullName |-> <<"B","D">>, CommonName |-> <<"B","L">>, USPSName |-> <<"A">>],
       [FullName |-> <<"A","v">>, CommonName |-> <<"A">>, USPSName |-> <<"A","V">>],
       [FullName |-> <<"B","A">>, CommonName |-> <<"B","X">>, USPSName |-> <<"B">>],
       [FullName |-> <<"A","V">>, CommonName |-> <<"A",".">>, USPSName |-> <<"A",".">>]>>,
     <<>>}

CityTables ==
    {<<[OriginalName |-> <<"A">>, NewName |-> <<"A","B">>],
       [OriginalName |-> <<"A">>, NewName |-> <<"Z">>],
       [OriginalName |-> <<"A"," ","B">>, NewName |-> <<"a","b">>],
       [OriginalName |-> <<"b">>, NewName |-> <<"Q">>]>>,
     <<>>}

HarnessInit ==
    /\ pc = "harness"
    /\ key_name \in RawKeys
    /\ value_name \in RawValues
    /\ key_value_type = None
    /\ Cross_Reference \in StreetTables
    /\ Cross_Reference_Cities \in CityTables
    /\ usps_street_csv = Cross_Reference
    /\ cities_list_csv = Cross_Reference_Cities
    /\ osm = <<>>
    /\ AddtoCR = None
    /\ write = None
    /\ validate = FALSE
    /\ pos = 1
    /\ el = NoEl
    /\ raised = "None"
    /\ nodes_csv = <<>>
    /\ nodes_tags_csv = <<>>
    /\ ways_csv = <<>>
    /\ ways_nodes_csv = <<>>
    /\ ways_tags_csv = <<>>

\* key_value_type=handle_tags(element.attrib['k'],element.attrib['v'])
call_handle_tags ==
    /\ pc = "harness"
    /\ key_value_type' =
           handle_tags(key_name, value_name, Cross_Reference, Cross_Reference_Cities)
    /\ pc' = "returned"
    /\ UNCHANGED <<osm, validate, files, Cross_Reference, Cross_Reference_Cities, AddtoCR,
                   write, pos, el, raised, streams, key_name, value_name>>

HarnessNext == call_handle_tags

TagSpec == HarnessInit /\ [][HarnessNext]_vars

-----------------------------------------------------------------------------
(* process_map on its own, called with validate True or False, one step per
   call of shape_element, validate_element and of a writer *)

\* OSM ids, one per position of the file
IdDigits == <<"1", "2", "3", "4", "5", "6", "7", "8", "9">>

WithId(e, id) == [e EXCEPT !.attrib = [a \in DOMAIN e.attrib |->
                                          IF a = "id" THEN id ELSE e.attrib[a]]]

\* the files of OsmFiles with every element given an id of its own
NumberedFiles ==
    {[i \in DOMAIN f |-> WithId(f[i], <<IdDigits[i]>>)] : f \in OsmFiles}

\* validator.validate(element, schema): True or not, as the schema decides
validator_validate == BOOLEAN

\* validate_element(el, validator): raises Exception unless the validator
\* returns True
validate_element(valid) == IF valid THEN "None" ELSE "Exception"

MapInit ==
    /\ pc = "map_loop"
    /\ osm \in NumberedFiles
    /\ validate \in BOOLEAN
    /\ usps_street_csv = StreetFile
    /\ cities_list_csv = CityFile
    /\ Cross_Reference = readindata(StreetFile)
    /\ Cross_Reference_Cities = readindata(CityFile)
    /\ AddtoCR = None
    /\ write = None
    /\ pos = 1
    /\ el = NoEl
    /\ raised = "None"
    /\ nodes_csv = <<>>
    /\ nodes_tags_csv = <<>>
    /\ ways_csv = <<>>
    /\ ways_nodes_csv = <<>>
    /\ ways_tags_csv = <<>>
    /\ key_name = None
    /\ value_name = None
    /\ key_value_type = None

tables == <<osm, validate, files, Cross_Reference, Cross_Reference_Cities,
            AddtoCR, write, harness>>

\* el = shape_element(element): an exception ends the run
process_map_shape ==
    /\ pc = "map_loop"
    /\ pos <= Len(get_element(osm))
    /\ LET r == shape_element(get_element(osm)[pos], Cross_Reference,
                              Cross_Reference_Cities)
       IN  IF r.raised # "None"
           THEN /\ raised' = r.raised
                /\ pc' = "raised"
                /\ UNCHANGED el
           ELSE /\ el' = r
                /\ pc' = IF validate = TRUE THEN "map_validate" ELSE "map_primary"
                /\ UNCHANGED raised
    /\ UNCHANGED <<tables, pos, streams>>

\* a mutation of the validation step: the primary row is written first
process_map_validate_late ==
    /\ pc = "map_validate"
    /\ nodes_csv' = IF el.tag = "node" THEN Append(nodes_csv, el.primary)
                    ELSE nodes_csv
    /\ ways_csv' = IF el.tag = "way" THEN Append(ways_csv, el.primary)
                   ELSE ways_csv
    /\ \E valid \in validator_validate :
          IF validate_element(valid) # "None"
          THEN /\ raised' = validate_element(valid)
               /\ pc' = "raised"
          ELSE /\ pc' = IF el.tag = "node" THEN "map_tags" ELSE "map_way_nodes"
               /\ UNCHANGED raised
    /\ UNCHANGED <<tables, pos, el, nodes_tags_csv, ways_nodes_csv, ways_tags_csv>>

\* if validate is True: validate_element(el, validator), before any row of
\* el is written; its exception ends the run
process_map_validate ==
    /\ pc = "map_validate"
    /\ \E valid \in validator_validate :
          IF validate_element(valid) # "None"
          THEN /\ raised' = validate_element(valid)
               /\ pc' = "raised"
          ELSE /\ pc' = "map_primary"
               /\ UNCHANGED raised
    /\ UNCHANGED <<tables, pos, el, streams>>

\* nodes_writer.writerow(el['node']) or ways_writer.writerow(el['way'])
process_map_writerow ==
    /\ pc = "map_primary"
    /\ nodes_csv' = IF el.tag = "node" THEN Append(nodes_csv, el.primary)
                    ELSE nodes_csv
    /\ ways_csv' = IF el.tag = "way" THEN Append(ways_csv, el.primary)
                   ELSE ways_csv
    /\ pc' = IF el.tag = "node" THEN "map_tags" ELSE "map_way_nodes"
    /\ UNCHANGED <<tables, pos, el, raised, nodes_tags_csv, ways_nodes_csv,
                   ways_tags_csv>>

\* way_nodes_writer.writerows(el['way_nodes'])
process_map_way_nodes ==
    /\ pc = "map_way_nodes"
    /\ ways_nodes_csv' = ways_nodes_csv \o el.way_nodes
    /\ pc' = "map_tags"
    /\ UNCHANGED <<tables, pos, el, raised, nodes_csv, nodes_tags_csv, ways_csv,
                   ways_tags_csv>>

\* node_tags_writer.writerows(el['node_tags']) or
\* way_tags_writer.writerows(el['way_tags']), the last call of the loop body
process_map_tags ==
    /\ pc = "map_tags"
    /\ nodes_tags_csv' = IF el.tag = "node" THEN nodes_tags_csv \o el.tags
                         ELSE nodes_tags_csv
    /\ ways_tags_csv' = IF el.tag = "way" THEN ways_tags_csv \o el.tags
                        ELSE ways_tags_csv
    /\ pos' = pos + 1
    /\ pc' = "map_loop"
    /\ UNCHANGED <<tables, el, raised, nodes_csv, ways_csv, ways_nodes_csv>>

\* the loop ends and the files are closed
process_map_close ==
    /\ pc = "map_loop"
    /\ pos > Len(get_element(osm))
    /\ pc' = "done"
    /\ UNCHANGED <<tables, pos, el, raised, streams>>

MapNext ==
    \/ process_map_shape
    \/ process_map_validate
    \/ process_map_writerow
    \/ process_map_way_nodes
    \/ process_map_tags
    \/ process_map_close

MapSpec == MapInit /\ [][MapNext]_vars

-----------------------------------------------------------------------------
(* Properties of handle_tags *)

\* the raw key holds no disallowed character
Accepted(key) == \A i \in DOMAIN key : key[i] \notin PROBLEMCHARS

Returned == pc = "returned"

\* C3: for every accepted raw key whose record is emitted, the record has type = the
\* characters before the first colon and key = all characters after it when
\* the key holds a colon, and type = "regular", key = the raw key otherwise
C3_TypeBeforeColonKeyAfter ==
    (Returned /\ Accepted(key_name) /\ key_value_type.raised = "None") =>
        LET c == FirstColon(key_name) IN
        IF c # 0
        THEN /\ key_value_type.type = SubSeq(key_name, 1, c - 1)
             /\ key_value_type.key = SubSeq(key_name, c + 1, Len(key_name))
        ELSE /\ key_value_type.type = S_regular
             /\ key_value_type.key = key_name

\* index of the last whitespace character of s, 0 when there is none
LastSpace(s) ==
    IF \E i \in DOMAIN s : IsSpace(s[i])
    THEN CHOOSE i \in DOMAIN s : IsSpace(s[i]) /\ \A j \in (i + 1)..Len(s) : ~IsSpace(s[j])
    ELSE 0

\* the full form the street table gives a token: the first common-name match,
\* else the first USPS-name match, else the token itself
FullForm(CR, token) ==
    LET cn == {i \in DOMAIN CR : CR[i].CommonName = token}
        un == {i \in DOMAIN CR : CR[i].USPSName = token}
        first(S) == CHOOSE i \in S : \A j \in S : i <= j
    IN  IF cn # {} THEN CR[first(cn)].FullName
        ELSE IF un # {} THEN CR[first(un)].FullName
        ELSE token

\* C4: for a tag of type "street" the value is the uppercased raw value with
\* only its trailing whitespace-delimited token replaced by the full form of
\* that token, every character before the token left as it was. Stated for
\* the values whose trailing token starts with a letter or digit, with the
\* full form taken as stored or uppercased.
C4_OnlyTrailingTokenReplaced ==
    (Returned /\ key_value_type.raised = "None" /\ key_value_type.type = S_street) =>
        LET u == upper(value_name)
            start == LastSpace(u) + 1
            token == SubSeq(u, start, Len(u))
            before == SubSeq(u, 1, start - 1)
            full == FullForm(Cross_Reference, token)
        IN  (token # <<>> /\ IsWord(token[1])) =>
                key_value_type.value \in {before \o full, before \o upper(full)}

\* the tags the code gives the type "city"
CityTag(key) == Accepted(key) /\ FirstColon(key) # 0 /\ split1(key)[2] = S_city

\* the rows of the city table whose original name is exactly name
CityRows(name) ==
    {i \in DOMAIN Cross_Reference_Cities :
        Cross_Reference_Cities[i].OriginalName = name}

\* C5: for a tag of type "city" no error is raised, and the value is the
\* canonical name of the (first) row whose original name equals the
\* uppercased raw value, or the uppercased raw value when there is no such row
C5_CityExactLookup ==
    (Returned /\ CityTag(key_name)) =>
        LET u == upper(value_name)
            rows == CityRows(u)
        IN  /\ key_value_type.raised = "None"
            /\ key_value_type.type = S_city
            /\ IF rows # {}
               THEN key_value_type.value =
                        Cross_Reference_Cities[CHOOSE i \in rows :
                                                  \A j \in rows : i <= j].NewName
               ELSE key_value_type.value = u

\* the type the code gives the record of an accepted raw key
TypeOf(key) == IF FirstColon(key) # 0 THEN split1(key)[2] ELSE S_regular

-----------------------------------------------------------------------------
(* Properties of shape_element, read off el after each element *)

\* the elements process_map is given, in order
Yielded == get_element(osm)

\* el holds the shaping of Yielded[pos - 1]
Shaped == pos > 1

LastElement == Yielded[pos - 1]

TagChildren(e) == SelectSeq(e.children, LAMBDA c : c.tag = "tag")
NdChildren(e) == SelectSeq(e.children, LAMBDA c : c.tag = "nd")

\* C1: for every way, whatever tags it carries, shape_element emits one
\* node-reference record per nd child, in document order, with positions
\* 0..n-1 and node_id equal to the child's ref
C1_OneRecordPerReference ==
    (Shaped /\ LastElement.tag = "way") =>
        LET nds == NdChildren(LastElement) IN
        el.way_nodes =
            [i \in 1..Len(nds) |->
                [id |-> LastElement.attrib["id"],
                 node_id |-> nds[i].attrib["ref"],
                 position |-> i - 1]]

\* the element has a tag whose key holds a disallowed character, and nothing
\* else that could stop its shaping
OnlyProblemKeys(e) ==
    /\ \A f \in Range(IF e.tag = "node" THEN NODE_FIELDS ELSE WAY_FIELDS) :
          f \in DOMAIN e.attrib
    /\ \E i \in DOMAIN TagChildren(e) : ~Accepted(TagChildren(e)[i].attrib["k"])
    /\ \A i \in DOMAIN TagChildren(e) : ~is_unicode(TagChildren(e)[i].attrib["v"])

\* C2: shaping an element that has a tag with a disallowed character in its
\* key raises no error and emits no record for that tag, while the primary
\* record and the records of the other tags are produced
C2_ProblemTagDropped ==
    \A i \in DOMAIN Yielded :
        OnlyProblemKeys(Yielded[i]) =>
            /\ ~(pc = "raised" /\ pos = i /\ raised = "UnboundLocalError")
            /\ (pos = i + 1) =>
                  LET kept == SelectSeq(TagChildren(Yielded[i]),
                                        LAMBDA c : Accepted(c.attrib["k"]))
                  IN  /\ el.primary # <<>>
                      /\ Len(el.tags) = Len(kept)

\* C7: every tag record and every node-reference record of an element carries
\* the id attribute of that element
C7_OwnerId ==
    Shaped =>
        /\ \A i \in DOMAIN el.tags : el.tags[i].id = LastElement.attrib["id"]
        /\ \A i \in DOMAIN el.way_nodes :
              el.way_nodes[i].id = LastElement.attrib["id"]

\* two ways were shaped, one with several references and one with several
\* tags, and their records are in the files
C7_Witness ==
    /\ Shaped
    /\ Len(el.tags) >= 2
    /\ Len(ways_nodes_csv) >= 2
    /\ Len(ways_tags_csv) >= 2
    /\ \A i \in DOMAIN el.tags : el.tags[i].id = LastElement.attrib["id"]

\* C8: the primary record has exactly the fields of its kind, each holding the
\* value of the element's attribute of the same name
C8_PrimaryHoldsAttributes ==
    Shaped =>
        LET fields == IF LastElement.tag = "node"
                      THEN {"id", "lat", "lon", "user", "uid", "version",
                            "changeset", "timestamp"}
                      ELSE {"id", "user", "uid", "version", "changeset",
                            "timestamp"}
        IN  /\ DOMAIN el.primary = fields
            /\ \A f \in fields : el.primary[f] = LastElement.attrib[f]

-----------------------------------------------------------------------------
(* Properties of the run *)

\* the element lacks an attribute its primary record requires
LacksRequired(e) ==
    \/ e.tag = "node" /\ \E f \in {"id", "lat", "lon", "user", "uid", "version",
                                  "changeset", "timestamp"} : f \notin DOMAIN e.attrib
    \/ e.tag = "way" /\ \E f \in {"id", "user", "uid", "version", "changeset",
                                 "timestamp"} : f \notin DOMAIN e.attrib

\* the number of children named name of the first n elements given
RECURSIVE ChildCount(_, _)
ChildCount(n, name) ==
    IF n = 0 THEN 0
    ELSE ChildCount(n - 1, name)
         + Len(SelectSeq(Yielded[n].children, LAMBDA c : c.tag = name))

\* what the files may hold when the element at index i lacks an attribute:
\* the run never goes past it and never ends normally, and the files hold
\* rows of the elements before it only
HaltsAt(i) ==
    /\ pos <= i
    /\ pc # "done"
    /\ Len(nodes_csv) + Len(ways_csv) <= i - 1
    /\ Len(nodes_tags_csv) + Len(ways_tags_csv) <= ChildCount(i - 1, "tag")
    /\ Len(ways_nodes_csv) <= ChildCount(i - 1, "nd")

\* shaping the element raises KeyError, which ends the run with nothing written
RaisesKeyError ==
    /\ pc' = "raised"
    /\ raised' = "KeyError"
    /\ UNCHANGED <<pos, el, streams>>

\* C6: when an element lacks a required attribute, shaping it raises an error
\* that stops the run, and no row of that element or of a later one is written
C6_MissingAttributeHaltsRun ==
    /\ [](\A i \in DOMAIN Yielded : LacksRequired(Yielded[i]) => HaltsAt(i))
    /\ [][(pc = "process_map" /\ pos <= Len(Yielded) /\ LacksRequired(Yielded[pos]))
            => RaisesKeyError]_vars

\* the second element lacks an attribute: the run stopped there with the rows
\* of the first in the files
C6_Witness ==
    /\ pc = "raised"
    /\ raised = "KeyError"
    /\ pos = 2
    /\ LacksRequired(Yielded[2])
    /\ Len(nodes_csv) + Len(ways_csv) = 1
    /\ Len(nodes_tags_csv) + Len(ways_tags_csv) + Len(ways_nodes_csv) >= 1

\* the operator chose the reconciliation step
Reconciling == upper(AddtoCR) = S_Y

\* process_map has been called
ShapingStarted ==
    \/ pc \in {"process_map", "done"}
    \/ pc = "raised" /\ (~Reconciling \/ write # None)

\* every row of the table is a row of the file
Persisted(table, file) == \A i \in DOMAIN table : \E j \in DOMAIN file : file[j] = table[i]

NothingShaped ==
    /\ pos = 1
    /\ el = NoEl
    /\ \A i \in DOMAIN streams : streams[i] = <<>>

\* C9: in a run in which the reconciliation step is chosen, both tables are
\* reconciled and every entry added is in its file before the first element
\* is shaped
C9_ReconciliationPersisted ==
    /\ ~ShapingStarted => NothingShaped
    /\ (Reconciling /\ ShapingStarted) =>
          /\ Persisted(Cross_Reference, usps_street_csv)
          /\ Persisted(Cross_Reference_Cities, cities_list_csv)

\* C9 as amended: no element is shaped before the reconciliation of both
\* tables has returned; the street table is always saved, the city table when
\* the operator answers the write prompt with y or Y, and otherwise the city
\* file is left as it was while the shaping run uses the unsaved table
C9_SavedWhenConfirmed ==
    /\ ~ShapingStarted => NothingShaped
    /\ (Reconciling /\ ShapingStarted) =>
          /\ write # None
          /\ Cross_Reference = usps_street_csv
          /\ upper(write) = S_Y => Cross_Reference_Cities = cities_list_csv
          /\ upper(write) # S_Y => cities_list_csv = CityFile

\* a run that added a street entry and a city entry, saved the first and not
\* the second, and shaped the file
C9_Witness ==
    /\ Reconciling
    /\ pc = "done"
    /\ pos > 1
    /\ upper(write) # S_Y
    /\ Len(Cross_Reference) > Len(StreetFile)
    /\ Cross_Reference = usps_street_csv
    /\ ~Persisted(Cross_Reference_Cities, cities_list_csv)

\* C10: the shaping pipeline leaves both cross-reference tables as they were
\* when process_map started
C10_TablesUnchangedByShaping ==
    [][ShapingStarted =>
         /\ Cross_Reference' = Cross_Reference
         /\ Cross_Reference_Cities' = Cross_Reference_Cities]_vars

\* a run that shaped street and city tags, found in the tables and not
C10_Witness ==
    /\ pc = "done"
    /\ pos = 3
    /\ \E i \in DOMAIN nodes_tags_csv :
          /\ nodes_tags_csv[i].type = S_street
          /\ nodes_tags_csv[i].value # upper(T_street_hit.attrib["v"])
    /\ \E i \in DOMAIN nodes_tags_csv :
          /\ nodes_tags_csv[i].type = S_city
          /\ nodes_tags_csv[i].value = upper(T_city_new.attrib["v"])
    /\ Cross_Reference = StreetFile
    /\ Cross_Reference_Cities = CityFile

-----------------------------------------------------------------------------
(* Properties of process_map, at every call of a writer *)

\* some row of the primary stream has the owner id of row
HasPrimary(row, primary) == \E j \in DOMAIN primary : primary[j].id = row.id

\* every row of a tag stream and of the node-reference stream has its primary
\* row in the matching primary stream
ReferentialIntegrity ==
    /\ \A i \in DOMAIN nodes_tags_csv : HasPrimary(nodes_tags_csv[i], nodes_csv)
    /\ \A i \in DOMAIN ways_tags_csv : HasPrimary(ways_tags_csv[i], ways_csv)
    /\ \A i \in DOMAIN ways_nodes_csv : HasPrimary(ways_nodes_csv[i], ways_csv)

\* no stream holds a row of the element with this id
NoRowOf(id) ==
    /\ \A i \in DOMAIN nodes_csv : nodes_csv[i].id # id
    /\ \A i \in DOMAIN nodes_tags_csv : nodes_tags_csv[i].id # id
    /\ \A i \in DOMAIN ways_csv : ways_csv[i].id # id
    /\ \A i \in DOMAIN ways_nodes_csv : ways_nodes_csv[i].id # id
    /\ \A i \in DOMAIN ways_tags_csv : ways_tags_csv[i].id # id

\* validate_element raised for the element at pos, which ended the run
FailedValidation == pc = "raised" /\ raised = "Exception"

\* C12: at every point of a run of process_map, also of one that a shaping
\* error or a failed validation ended, every row written to a tag stream or to
\* the node-reference stream has an owner id whose primary row is already in
\* the matching primary stream, and an element that failed validation has no
\* row in any stream
C12_ReferentialIntegrity ==
    /\ ReferentialIntegrity
    /\ FailedValidation => NoRowOf(Yielded[pos].attrib["id"])

\* the second element failed validation after the rows of the first, tag or
\* node-reference rows among them, were written
C12_Witness ==
    /\ FailedValidation
    /\ pos = 2
    /\ Len(nodes_csv) + Len(ways_csv) = 1
    /\ Len(nodes_tags_csv) + Len(ways_tags_csv) + Len(ways_nodes_csv) >= 1
    /\ NoRowOf(Yielded[2].attrib["id"])

====
